---- MODULE Spec2Model ----
(***************************************************************************)
(* Voice bot webhook server (app.py, rasa_handler.py, twilio_handler.py,   *)
(* sarvam_tts.py) as a state machine.                                      *)
(*                                                                         *)
(* State: the module-level dict call_sessions, the SarvamTTS api_key read  *)
(* from the environment at construction, and, per request-handling thread, *)
(* the position of the handler it runs together with the handler's locals; *)
(* and, of the telephony provider, the calls that calls.create made there. *)
(* A handler is cut into steps at the points where it blocks on the        *)
(* network (the POST to Rasa, the POST to Sarvam); process_speech is also  *)
(* cut between its membership test (line 79) and its subscript (line 84).  *)
(* call_status has no such point and is one step.                          *)
(*                                                                         *)
(* Spec serves one request at a time over the full set of forms and        *)
(* network outcomes; SpecThreaded has two requests in flight over fewer;   *)
(* SpecOutbound adds /call/initiate and the call-start webhooks of the     *)
(* calls it creates.                                                       *)
(*                                                                         *)
(* Python values: a dict is a function whose DOMAIN is its key set; an     *)
(* Optional[str] is a sequence of length 0 (None) or 1; non-ASCII literals *)
(* of the source are written as ASCII transliterations.                    *)
(***************************************************************************)
EXTENDS Integers, Sequences, FiniteSets, TLC

VARIABLES call_sessions, req, api_key, turns, twilio_calls

vars == <<call_sessions, req, api_key, turns, twilio_calls>>

\* ------------------------------------------------------------------ bounds

\* process_speech requests that reach a session, over the whole run
MaxTurns == 2

\* ------------------------------------------------------------- python bits

None == <<>>

Some(x) == <<x>>

\* Python truthiness of an Optional[str]
Truthy(opt) == opt # None /\ opt[1] # ""

\* werkzeug MultiDict.get / dict.get
Get(d, key, default) == IF key \in DOMAIN d THEN d[key] ELSE default

RECURSIVE Join(_, _)
\* str.join
Join(sep, strs) ==
    IF strs = <<>> THEN ""
    ELSE IF Len(strs) = 1 THEN strs[1]
    ELSE strs[1] \o sep \o Join(sep, Tail(strs))

\* ------------------------------------------------------------- environment

SERVER_URL == "https://bot.example"

\* os.getenv('DEFAULT_LANGUAGE', 'hi') with the variable unset
DEFAULT_LANGUAGE == "hi"

\* os.getenv('DEFAULT_VOICE', 'meera') with the variable unset
default_voice == "meera"

Supported == {"hi", "te", "en", "ur"}

\* ------------------------------------------------------- rasa_handler.py

\* RasaHandler.greetings
greetings ==
    [hi |-> "Namaste! Main aapki sahayata ke liye yahan hoon. Main aapki kaise madad kar sakta hoon?",
     te |-> "Namaskaram! Nenu meeku sahayam cheyadaniki ikkada unnanu. Nenu meeku ela sahayam cheyagalanu?",
     en |-> "Hello! I am here to assist you. How may I help you today?",
     ur |-> "Assalam alaikum! Main aap ki madad ke liye yahan maujood hoon. Main aap ki kaise madad kar sakta hoon?"]

\* RasaHandler.get_initial_greeting
get_initial_greeting(sender_id, language) == Get(greetings, language, greetings["en"])

fallback_messages ==
    [hi |-> "Kshama karen, main aapki baat samajh nahin paya. Kya aap kripya dohra sakte hain?",
     te |-> "Kshaminchandi, nenu mee maata artham chesukolekapoyanu. Dayachesi malli cheppagalara?",
     en |-> "Sorry, I did not understand that. Could you please repeat?",
     ur |-> "Maazrat, main aap ki baat samajh nahin paya. Kya aap barah-e-karam dohra sakte hain?"]

\* RasaHandler._get_fallback_response
_get_fallback_response(language) == Get(fallback_messages, language, fallback_messages["en"])

\* Mutant of RasaPayload: the history already holds the current utterance
RasaPayloadWithCurrent(sender_id, message, language, conversation_history) ==
    [sender   |-> sender_id,
     message  |-> message,
     metadata |-> [language |-> language,
                   conversation_history |->
                       Append(conversation_history, [user |-> message, bot |-> ""])]]

\* The JSON body sent to the Rasa REST webhook
RasaPayload(sender_id, message, language, conversation_history) ==
    [sender   |-> sender_id,
     message  |-> message,
     metadata |-> [language |-> language, conversation_history |-> conversation_history]]

\* Mutant of ResponseTexts: the comprehension without its `if 'text' in r`
ResponseTextsUnfiltered(responses) ==
    [i \in 1..Len(responses) |-> Get(responses[i], "text", "")]

\* [r.get('text', '') for r in responses if 'text' in r]
ResponseTexts(responses) ==
    LET F[i \in 0..Len(responses)] ==
            IF i = 0 THEN <<>>
            ELSE IF "text" \in DOMAIN responses[i]
                 THEN Append(F[i - 1], Get(responses[i], "text", ""))
                 ELSE F[i - 1]
    IN  F[Len(responses)]

\* What requests.post to the webhook can come back with: requests.exceptions.Timeout,
\* any other exception (connection refused, a body that is not JSON, ...), or an
\* HTTP response whose JSON body is a list of objects.
RasaTimeout == [kind |-> "timeout"]

RasaException == [kind |-> "exception"]

RasaHttp(status_code, body) == [kind |-> "http", status_code |-> status_code, json |-> body]

\* Mutant of send_message_reply: no test for an empty list before the join
send_message_reply_unchecked(outcome, language) ==
    IF outcome.kind = "http"
    THEN IF outcome.status_code = 200
         THEN Join(" ", ResponseTexts(outcome.json))
         ELSE _get_fallback_response(language)
    ELSE _get_fallback_response(language)

\* The reply send_message returns for one outcome of its POST (lines 61-87)
send_message_reply(outcome, language) ==
    IF outcome.kind = "http"
    THEN IF outcome.status_code = 200
         THEN IF Len(outcome.json) > 0
              THEN Join(" ", ResponseTexts(outcome.json))
              ELSE _get_fallback_response(language)
         ELSE _get_fallback_response(language)
    ELSE _get_fallback_response(language)

\* ------------------------------------------------------- sarvam_tts.py

\* SarvamTTS._get_sarvam_language_code
_get_sarvam_language_code(language) ==
    Get([hi |-> "hi-IN", te |-> "te-IN", en |-> "en-IN", ur |-> "ur-PK"], language, "hi-IN")

\* SarvamTTS._get_voice_for_language
_get_voice_for_language(language) ==
    Get([hi |-> "meera", te |-> "meera", en |-> "meera", ur |-> "meera"], language, default_voice)

\* The JSON body posted to the Sarvam text-to-speech API (the fields the
\* reply depends on; pitch, pace, loudness and model are fixed numbers)
SarvamPayload(text, language) ==
    [text |-> text,
     language_code |-> _get_sarvam_language_code(language),
     speaker |-> _get_voice_for_language(language),
     speech_sample_rate |-> 8000]

\* int(time.time() * 1000) at the moment the file is written
NowMillis == "1790000000000"

\* SarvamTTS._save_audio_temporarily: the URL, or None when makedirs, b64decode
\* or the write raises
_save_audio_temporarily(audio_base64, language, disk_ok) ==
    IF disk_ok
    THEN Some(SERVER_URL \o "/audio/" \o language \o "_" \o NowMillis \o ".wav")
    ELSE None

\* What requests.post to Sarvam can come back with. An HTTP response carries a
\* status and a JSON object; disk_ok says whether the audio file can be written.
TtsTimeout == [kind |-> "timeout"]

TtsException == [kind |-> "exception"]

TtsHttp(status_code, result, disk_ok) ==
    [kind |-> "http", status_code |-> status_code, result |-> result, disk_ok |-> disk_ok]

\* SarvamTTS.generate_speech after the POST came back (lines 69-95)
generate_speech_result(outcome, language) ==
    IF outcome.kind = "http"
    THEN IF outcome.status_code = 200
         THEN IF "audio" \in DOMAIN outcome.result
              THEN _save_audio_temporarily(outcome.result["audio"], language, outcome.disk_ok)
              ELSE IF "audio_url" \in DOMAIN outcome.result
                   THEN Some(outcome.result["audio_url"])
                   ELSE None
         ELSE None
    ELSE None

\* ------------------------------------------------------- twilio_handler.py

\* os.getenv('TWILIO_PHONE_NUMBER')
TWILIO_PHONE_NUMBER == "+15005550006"

\* TwilioHandler.initiate_outbound_call: the keyword arguments it calls
\* client.calls.create with (lines 37-47, CALL_TIMEOUT unset)
initiate_outbound_call(to_number, language) ==
    [to |-> to_number,
     from_ |-> TWILIO_PHONE_NUMBER,
     url |-> SERVER_URL \o "/voice/incoming?language=" \o language,
     status_callback |-> SERVER_URL \o "/voice/status",
     status_callback_event |-> <<"initiated", "ringing", "answered", "completed">>,
     timeout |-> 60]

\* TwilioHandler._get_twilio_language
_get_twilio_language(language) ==
    Get([hi |-> "hi-IN", te |-> "te-IN", en |-> "en-IN", ur |-> "ur-PK"], language, "en-IN")

\* TwilioHandler._get_speech_hints
_get_speech_hints(language) ==
    Get([hi |-> "haan, nahin, theek hai, dhanyavaad",
         te |-> "avunu, kaadu, sare, dhanyavaadalu",
         en |-> "yes, no, okay, thank you",
         ur |-> "haan, nahin, theek hai, shukriya"], language, "")

\* TwiML verbs
Play(url) == [verb |-> "Play", url |-> url]

Say(text, language) == [verb |-> "Say", text |-> text, language |-> language]

Gather(action, language, hints) ==
    [verb |-> "Gather", input |-> "speech", timeout |-> 5, action |-> action,
     language |-> language, speech_timeout |-> "auto", hints |-> hints]

Redirect(url) == [verb |-> "Redirect", url |-> url]

Hangup == [verb |-> "Hangup"]

\* Mutant of SpeechVerb: `if audio_url is not None` for `if audio_url`
SpeechVerbIsNotNone(message, language, audio_url) ==
    IF audio_url # None
    THEN Play(audio_url[1])
    ELSE Say(message, _get_twilio_language(language))

\* Lines 64-68 and 95-99: play the synthesized audio, else Twilio's own TTS
SpeechVerb(message, language, audio_url) ==
    IF Truthy(audio_url)
    THEN Play(audio_url[1])
    ELSE Say(message, _get_twilio_language(language))

\* TwilioHandler.generate_greeting_response, given what generate_speech returned
generate_greeting_response(message, language, audio_url) ==
    << SpeechVerb(message, language, audio_url),
       Gather(SERVER_URL \o "/voice/process", _get_twilio_language(language),
              _get_speech_hints(language)),
       Redirect(SERVER_URL \o "/voice/process") >>

\* Mutant of generate_response: the end_call test inverted
generate_response_inverted(message, language, end_call, audio_url) ==
    IF ~end_call
    THEN << SpeechVerb(message, language, audio_url), Hangup >>
    ELSE << SpeechVerb(message, language, audio_url),
            Gather(SERVER_URL \o "/voice/process", _get_twilio_language(language),
                   _get_speech_hints(language)),
            Redirect(SERVER_URL \o "/voice/process") >>

\* TwilioHandler.generate_response, given what generate_speech returned
generate_response(message, language, end_call, audio_url) ==
    IF end_call
    THEN << SpeechVerb(message, language, audio_url), Hangup >>
    ELSE << SpeechVerb(message, language, audio_url),
            Gather(SERVER_URL \o "/voice/process", _get_twilio_language(language),
                   _get_speech_hints(language)),
            Redirect(SERVER_URL \o "/voice/process") >>

error_messages ==
    [hi |-> "Kshama karen, kuchh galat ho gaya. Kripya baad mein punah prayas karen.",
     te |-> "Kshaminchandi, edo tappu jarigindi. Dayachesi tarvata malli prayatninchandi.",
     en |-> "Sorry, something went wrong. Please try again later.",
     ur |-> "Maazrat, kuchh ghalat ho gaya. Barah-e-karam baad mein dobara koshish karen."]

\* TwilioHandler.generate_error_response
generate_error_response(language) ==
    << Say(Get(error_messages, language, error_messages["en"]), _get_twilio_language(language)),
       Hangup >>

\* ------------------------------------------------------------------ app.py

\* Request-handling threads of the server
Threads == {"t1", "t2"}

\* The threads that serve requests under Spec: one request at a time
Serving == {"t1"}

CallSids == {"CA1", "CA2"}

FromNumbers == {"+919876543210"}

\* The language field of a call-start form, when it has one
FormLanguages == {"en", "te", "fr"}

Utterances == {"hello"}

CallStatuses == {"ringing", "in-progress", "completed", "failed", "busy", "no-answer"}

\* Forms Twilio posts to /voice/incoming
IncomingForms ==
    [CallSid : CallSids, From : FromNumbers]
        \cup [CallSid : CallSids, From : FromNumbers, language : FormLanguages]

\* Forms Twilio posts to /voice/process: with the recognized speech, or, on
\* the redirect after a Gather that heard nothing, without it
ProcessForms == [CallSid : CallSids] \cup [CallSid : CallSids, SpeechResult : Utterances]

\* Forms Twilio posts to /voice/status
StatusForms == [CallSid : CallSids, CallStatus : CallStatuses]

\* Bodies the Rasa REST webhook answers with
RasaBodies ==
    { <<>>,
      << [recipient_id |-> "CA", text |-> "Hi there"] >>,
      << [recipient_id |-> "CA", text |-> "Hi"], [recipient_id |-> "CA", text |-> "there"] >>,
      << [recipient_id |-> "CA", text |-> "Hi"], [recipient_id |-> "CA", image |-> "a.png"],
         [recipient_id |-> "CA", text |-> "there"] >>,
      << [recipient_id |-> "CA", image |-> "a.png"], [recipient_id |-> "CA", text |-> "Hi there"] >>,
      << [recipient_id |-> "CA", image |-> "a.png"] >>,
      << [recipient_id |-> "CA", text |-> ""] >> }

RasaOutcomes ==
    {RasaTimeout, RasaException, RasaHttp(500, <<>>)} \cup {RasaHttp(200, b) : b \in RasaBodies}

TtsOutcomes ==
    { TtsTimeout, TtsException,
      TtsHttp(500, [error |-> "internal"], TRUE),
      TtsHttp(200, [audio |-> "UklGRg=="], TRUE),
      TtsHttp(200, [audio |-> "UklGRg=="], FALSE),
      TtsHttp(200, [audio_url |-> "https://cdn.example/a.wav"], TRUE),
      TtsHttp(200, [audio_url |-> ""], TRUE),
      TtsHttp(200, [request_id |-> "r1"], TRUE) }

\* flask.Response(str(twiml), mimetype='text/xml')
TwimlResponse(twiml) == [status |-> 200, mimetype |-> "text/xml", twiml |-> twiml]

\* A view's (dict, status) return value
JsonResponse(body, status) == [status |-> status, mimetype |-> "application/json", json |-> body]

\* A request thread that serves nothing: no handler, no locals. Of a thread
\* that serves a request: form is request.form, args request.args, data what
\* request.get_json() returned; create_request is what calls.create was
\* called with; language the local of that
\* name; session says whether the local `session` is unbound ("none"), bound
\* to the dict stored under call_sid ("stored") or to a dict no longer stored
\* ("detached"); rasa_requests and tts_requests are the payloads posted so far;
\* rasa_outcome and tts_outcome what the POST came back with, kept until the
\* request's next step; rasa_response and audio_url the returned values;
\* cleaned whether line 123 ran; response the value the view returned.
\* at_check is no local of the code: it keeps, for the claims about a turn
\* that fails after line 79 found its session, the language that session had
\* then.
Idle ==
    [pc |-> "idle", handler |-> "", form |-> <<>>, language |-> "", session |-> "none",
     rasa_requests |-> <<>>, rasa_outcome |-> <<>>, rasa_response |-> None,
     tts_requests |-> <<>>, tts_outcome |-> <<>>, audio_url |-> None, cleaned |-> FALSE,
     response |-> <<>>, at_check |-> None, args |-> <<>>, data |-> None,
     create_request |-> <<>>]

Init ==
    /\ call_sessions = <<>>
    /\ req = [t \in Threads |-> Idle]
    /\ api_key \in {None, Some("sk-sarvam")}
    /\ turns = 0
    /\ twilio_calls = <<>>

\* Mutant of SetItem: d = {k: v}, a new dict with the one key
SetItemOnly(d, k, v) == [x \in {k} |-> v]

\* dict item assignment d[k] = v
SetItem(d, k, v) == [x \in DOMAIN d \cup {k} |-> IF x = k THEN v ELSE d[x]]

\* Mutant of DelItem: d.clear()
DelItemClear(d, k) == [x \in {} |-> d[x]]

\* del d[k]
DelItem(d, k) == [x \in DOMAIN d \ {k} |-> d[x]]

\* A thread's local name `session` is bound to the dict object stored under
\* call_sid at the time of the subscript. Deleting or replacing
\* call_sessions[call_sid] leaves every such local bound to the old object,
\* which is then no longer the stored one.
Detach(r, t, call_sid) ==
    [u \in Threads |->
        IF u # t /\ r[u].session = "stored" /\ r[u].form["CallSid"] = call_sid
        THEN [r[u] EXCEPT !.session = "detached"]
        ELSE r[u]]

\* The session dict built at lines 49-53
NewSession(from_number, language) ==
    [from_number |-> from_number, language |-> language, conversation_history |-> <<>>]

\* incoming_call up to the point where generate_speech posts to Sarvam, or,
\* without an API key, to its return (lines 41-61). The view reads
\* request.form only.
incoming_call(t, form, args) ==
    /\ req[t].pc = "idle"
    /\ LET call_sid == Get(form, "CallSid", "")
           from_number == Get(form, "From", "")
           language == Get(form, "language", DEFAULT_LANGUAGE)
           initial_message == get_initial_greeting(call_sid, language)
           r0 == [Idle EXCEPT !.handler = "incoming_call", !.form = form, !.args = args,
                              !.language = language]
           r1 == IF api_key = None
                 THEN [r0 EXCEPT !.pc = "done",
                          !.response = << TwimlResponse(
                              generate_greeting_response(initial_message, language, None)) >>]
                 ELSE [r0 EXCEPT !.pc = "greeting_tts",
                          !.tts_requests = << SarvamPayload(initial_message, language) >>]
       IN  /\ call_sessions' = SetItem(call_sessions, call_sid, NewSession(from_number, language))
           /\ req' = [Detach(req, t, call_sid) EXCEPT ![t] = r1]
    /\ UNCHANGED <<api_key, turns, twilio_calls>>

\* incoming_call from the return of the POST to Sarvam (lines 59-61, with
\* sarvam_tts.py lines 69-95)
incoming_call_respond(t, outcome) ==
    /\ req[t].pc = "greeting_tts"
    /\ LET language == req[t].language
           initial_message == get_initial_greeting(req[t].form["CallSid"], language)
           audio_url == generate_speech_result(outcome, language)
       IN  req' = [req EXCEPT ![t] =
                      [@ EXCEPT !.pc = "done", !.tts_outcome = <<outcome>>,
                                !.audio_url = audio_url,
                                !.response = << TwimlResponse(
                                    generate_greeting_response(initial_message, language, audio_url)) >>]]
    /\ UNCHANGED <<call_sessions, api_key, turns, twilio_calls>>

\* Mutant of process_speech: a turn for an unknown call_id starts a session
\* for it and goes on as a normal turn
process_speech_autocreate(t, form) ==
    /\ req[t].pc = "idle"
    /\ turns < MaxTurns
    /\ LET call_sid == Get(form, "CallSid", "")
       IN  /\ call_sessions' =
                  IF call_sid \in DOMAIN call_sessions THEN call_sessions
                  ELSE SetItem(call_sessions, call_sid, NewSession("", DEFAULT_LANGUAGE))
           /\ req' = [req EXCEPT ![t] =
                         [Idle EXCEPT !.handler = "process_speech", !.form = form, !.pc = "checked"]]
    /\ turns' = turns + 1
    /\ UNCHANGED <<api_key, twilio_calls>>

\* process_speech up to its membership test (lines 73-82): the error document
\* when call_sid is not a key of call_sessions
process_speech(t, form) ==
    /\ req[t].pc = "idle"
    /\ LET call_sid == Get(form, "CallSid", "")
           r0 == [Idle EXCEPT !.handler = "process_speech", !.form = form]
       IN  IF call_sid \notin DOMAIN call_sessions
           THEN /\ req' = [req EXCEPT ![t] =
                              [r0 EXCEPT !.pc = "done",
                                         !.response = << TwimlResponse(generate_error_response("hi")) >>]]
                /\ turns' = turns
           ELSE /\ turns < MaxTurns
                /\ req' = [req EXCEPT ![t] =
                              [r0 EXCEPT !.pc = "checked",
                                         !.at_check = Some(call_sessions[call_sid].language)]]
                /\ turns' = turns + 1
    /\ UNCHANGED <<call_sessions, api_key, twilio_calls>>

\* Mutant of process_speech_send: no except clause around the subscript, so
\* the KeyError leaves the view and Flask answers with its 500 page
process_speech_send_uncaught(t) ==
    /\ req[t].pc = "checked"
    /\ LET call_sid == Get(req[t].form, "CallSid", "")
           speech_result == Get(req[t].form, "SpeechResult", "")
       IN  IF call_sid \notin DOMAIN call_sessions
           THEN req' = [req EXCEPT ![t] =
                           [@ EXCEPT !.pc = "done",
                                     !.response = << [status |-> 500, mimetype |-> "text/html"] >>]]
           ELSE LET session == call_sessions[call_sid]
                    language == session.language
                IN  req' = [req EXCEPT ![t] =
                               [@ EXCEPT !.pc = "send_message", !.session = "stored",
                                         !.language = language,
                                         !.rasa_requests =
                                             << RasaPayload(call_sid, speech_result, language,
                                                            session.conversation_history) >>]]
    /\ UNCHANGED <<call_sessions, api_key, turns, twilio_calls>>

\* process_speech from the subscript to the POST to Rasa (lines 84-93 and
\* rasa_handler.py lines 46-65). A KeyError at line 84 is caught at line 106.
process_speech_send(t) ==
    /\ req[t].pc = "checked"
    /\ LET call_sid == Get(req[t].form, "CallSid", "")
           speech_result == Get(req[t].form, "SpeechResult", "")
       IN  IF call_sid \notin DOMAIN call_sessions
           THEN req' = [req EXCEPT ![t] =
                           [@ EXCEPT !.pc = "done",
                                     !.response = << TwimlResponse(generate_error_response("hi")) >>]]
           ELSE LET session == call_sessions[call_sid]
                    language == session.language
                IN  req' = [req EXCEPT ![t] =
                               [@ EXCEPT !.pc = "send_message", !.session = "stored",
                                         !.language = language,
                                         !.rasa_requests =
                                             << RasaPayload(call_sid, speech_result, language,
                                                            session.conversation_history) >>]]
    /\ UNCHANGED <<call_sessions, api_key, turns, twilio_calls>>

\* Mutant of AppendTurn: the pair goes to whatever is stored under call_sid,
\* a new session if nothing is
AppendTurnViaStore(sessions, r, user, bot) ==
    LET call_sid == r.form["CallSid"]
        pair == [user |-> user, bot |-> bot]
    IN  IF call_sid \in DOMAIN sessions
        THEN [sessions EXCEPT ![call_sid].conversation_history = Append(@, pair)]
        ELSE SetItem(sessions, call_sid,
                     [from_number |-> "", language |-> r.language,
                      conversation_history |-> << pair >>])

\* Mutant of AppendTurn: nothing is appended for an empty utterance
AppendTurnIfSpeech(sessions, r, user, bot) ==
    LET call_sid == r.form["CallSid"]
    IN  IF r.session = "stored" /\ user # ""
        THEN [sessions EXCEPT ![call_sid].conversation_history =
                                  Append(@, [user |-> user, bot |-> bot])]
        ELSE sessions

\* session['conversation_history'].append({...}) on the object the local
\* `session` is bound to (lines 96-99)
AppendTurn(sessions, r, user, bot) ==
    LET call_sid == r.form["CallSid"]
    IN  IF r.session = "stored"
        THEN [sessions EXCEPT ![call_sid].conversation_history =
                                  Append(@, [user |-> user, bot |-> bot])]
        ELSE sessions

\* process_speech from the return of the POST to Rasa to the POST to Sarvam,
\* or, without an API key, to its return (rasa_handler.py lines 67-87, app.py
\* lines 96-104)
process_speech_reply(t, outcome) ==
    /\ req[t].pc = "send_message"
    /\ LET language == req[t].language
           speech_result == Get(req[t].form, "SpeechResult", "")
           rasa_response == send_message_reply(outcome, language)
           r0 == [req[t] EXCEPT !.rasa_outcome = <<outcome>>,
                                !.rasa_response = Some(rasa_response)]
           r1 == IF api_key = None
                 THEN [r0 EXCEPT !.pc = "done",
                          !.response = << TwimlResponse(
                              generate_response(rasa_response, language, FALSE, None)) >>]
                 ELSE [r0 EXCEPT !.pc = "reply_tts",
                          !.tts_requests = << SarvamPayload(rasa_response, language) >>]
       IN  /\ call_sessions' = AppendTurn(call_sessions, req[t], speech_result, rasa_response)
           /\ req' = [req EXCEPT ![t] = r1]
    /\ UNCHANGED <<api_key, turns, twilio_calls>>

\* process_speech from the return of the POST to Sarvam (lines 102-104, with
\* sarvam_tts.py lines 69-95)
process_speech_respond(t, outcome) ==
    /\ req[t].pc = "reply_tts"
    /\ LET language == req[t].language
           rasa_response == req[t].rasa_response[1]
           audio_url == generate_speech_result(outcome, language)
       IN  req' = [req EXCEPT ![t] =
                      [@ EXCEPT !.pc = "done", !.rasa_outcome = <<>>,
                                !.tts_outcome = <<outcome>>, !.audio_url = audio_url,
                                !.response = << TwimlResponse(
                                    generate_response(rasa_response, language, FALSE, audio_url)) >>]]
    /\ UNCHANGED <<call_sessions, api_key, turns, twilio_calls>>

\* Mutant of TerminalStatuses: one status misspelt
TerminalStatusesTypo == {"completed", "failed", "busy", "no_answer"}

\* The statuses at which call_status drops the session (line 121)
TerminalStatuses == {"completed", "failed", "busy", "no-answer"}

\* call_status (lines 115-126)
call_status(t, form) ==
    /\ req[t].pc = "idle"
    /\ LET call_sid == Get(form, "CallSid", "")
           status == Get(form, "CallStatus", "")
           cleaned == status \in TerminalStatuses /\ call_sid \in DOMAIN call_sessions
           r0 == [Idle EXCEPT !.handler = "call_status", !.form = form, !.pc = "done",
                              !.cleaned = cleaned,
                              !.response = << JsonResponse([status |-> "received"], 200) >>]
       IN  IF cleaned
           THEN /\ call_sessions' = DelItem(call_sessions, call_sid)
                /\ req' = [Detach(req, t, call_sid) EXCEPT ![t] = r0]
           ELSE /\ call_sessions' = call_sessions
                /\ req' = [req EXCEPT ![t] = r0]
    /\ UNCHANGED <<api_key, turns, twilio_calls>>

\* Numbers asked to be called
ToNumbers == {"+919812345678"}

\* The language field of a /call/initiate body, when it has one
OutboundLanguages == {"en", "te"}

\* What request.get_json() gives initiate_call: None for a request without a
\* JSON body, else the object
JsonBodies ==
    {None} \cup
        {Some(d) : d \in [to_number : ToNumbers]
                            \cup [to_number : ToNumbers, language : OutboundLanguages]
                            \cup [to_number : {""}, language : OutboundLanguages]
                            \cup [language : OutboundLanguages]
                            \cup {<<>>}}

\* str(e) of the AttributeError that data.get raises on None
NoneTypeError == "'NoneType' object has no attribute 'get'"

\* What client.calls.create comes back with: the call it made, under a sid of
\* the provider's choosing, or an exception
CreateOutcomes ==
    {[kind |-> "created", sid |-> c] : c \in CallSids}
        \cup {[kind |-> "exception", error |-> "Unable to create record"]}

\* initiate_call up to the call of client.calls.create, or to its return when
\* it does not get that far (lines 132-141, 152-154)
initiate_call(t, data) ==
    /\ req[t].pc = "idle"
    /\ LET r0 == [Idle EXCEPT !.handler = "initiate_call", !.data = data]
       IN  IF data = None
           THEN req' = [req EXCEPT ![t] =
                           [r0 EXCEPT !.pc = "done",
                                      !.response =
                                          << JsonResponse([error |-> NoneTypeError], 500) >>]]
           ELSE LET to_number == IF "to_number" \in DOMAIN data[1]
                                 THEN Some(data[1]["to_number"]) ELSE None
                    language == Get(data[1], "language", DEFAULT_LANGUAGE)
                IN  IF ~Truthy(to_number)
                    THEN req' = [req EXCEPT ![t] =
                                    [r0 EXCEPT !.pc = "done",
                                               !.response = << JsonResponse(
                                                   [error |-> "to_number is required"], 400) >>]]
                    ELSE req' = [req EXCEPT ![t] =
                                    [r0 EXCEPT !.pc = "calls_create",
                                               !.language = language,
                                               !.create_request =
                                                   << initiate_outbound_call(to_number[1],
                                                                             language) >>]]
    /\ UNCHANGED <<call_sessions, api_key, turns, twilio_calls>>

\* initiate_call from the return of client.calls.create (lines 143-154, with
\* twilio_handler.py lines 49-54)
initiate_call_respond(t, outcome) ==
    /\ req[t].pc = "calls_create"
    /\ IF outcome.kind = "created"
       THEN /\ outcome.sid \notin DOMAIN twilio_calls
            /\ twilio_calls' = SetItem(twilio_calls, outcome.sid, req[t].create_request[1])
            /\ req' = [req EXCEPT ![t] =
                          [@ EXCEPT !.pc = "done",
                                    !.response = << JsonResponse(
                                        [status |-> "success",
                                         call_sid |-> outcome.sid,
                                         to |-> req[t].data[1]["to_number"],
                                         language |-> req[t].language], 200) >>]]
       ELSE /\ twilio_calls' = twilio_calls
            /\ req' = [req EXCEPT ![t] =
                          [@ EXCEPT !.pc = "done",
                                    !.response =
                                        << JsonResponse([error |-> outcome.error], 500) >>]]
    /\ UNCHANGED <<call_sessions, api_key, turns>>

\* request.args of a request to `url`: the name and the value of the one
\* parameter after the question mark, or nothing without a question mark
RequestArgs(url) ==
    LET marks == {i \in 1..Len(url) : SubSeq(url, i, i) = "?"}
    IN  IF marks = {} THEN <<>>
        ELSE LET q == CHOOSE i \in marks : \A j \in marks : i <= j
                 eqs == {i \in (q + 1)..Len(url) : SubSeq(url, i, i) = "="}
                 e == CHOOSE i \in eqs : \A j \in eqs : i <= j
             IN  [k \in {SubSeq(url, q + 1, e - 1)} |-> SubSeq(url, e + 1, Len(url))]

\* The provider's call-start webhook of a call that calls.create made: a POST
\* to the call's url, the call's parameters in the form, the url's query
\* string in request.args
outbound_call_start(t, sid) ==
    /\ sid \in DOMAIN twilio_calls
    /\ incoming_call(t, [CallSid |-> sid,
                         From |-> twilio_calls[sid].from_,
                         To |-> twilio_calls[sid].to],
                     RequestArgs(twilio_calls[sid].url))

\* The response left the server: the thread is free for the next request
finish(t) ==
    /\ req[t].pc = "done"
    /\ req' = [req EXCEPT ![t] = Idle]
    /\ UNCHANGED <<call_sessions, api_key, turns, twilio_calls>>

Next ==
    \/ \E t \in Serving, form \in IncomingForms : incoming_call(t, form, <<>>)
    \/ \E t \in Serving, outcome \in TtsOutcomes : incoming_call_respond(t, outcome)
    \/ \E t \in Serving, form \in ProcessForms : process_speech(t, form)
    \/ \E t \in Serving : process_speech_send(t)
    \/ \E t \in Serving, outcome \in RasaOutcomes : process_speech_reply(t, outcome)
    \/ \E t \in Serving, outcome \in TtsOutcomes : process_speech_respond(t, outcome)
    \/ \E t \in Serving, form \in StatusForms : call_status(t, form)
    \/ \E t \in Serving : finish(t)

Spec == Init /\ [][Next]_vars

\* The same handlers with two requests in flight at a time (app.run serves
\* each request on its own thread), over fewer forms and outcomes
ThreadedIncomingForms ==
    [CallSid : CallSids, From : FromNumbers]
        \cup [CallSid : CallSids, From : FromNumbers, language : {"en"}]

ThreadedRasaOutcomes == {RasaTimeout, RasaHttp(200, << [recipient_id |-> "CA", text |-> "Hi there"] >>)}

ThreadedTtsOutcomes ==
    {TtsTimeout, TtsHttp(200, [audio_url |-> "https://cdn.example/a.wav"], TRUE)}

ThreadedStatusForms == [CallSid : CallSids, CallStatus : {"in-progress", "completed"}]

NextThreaded ==
    \/ \E t \in Threads, form \in ThreadedIncomingForms : incoming_call(t, form, <<>>)
    \/ \E t \in Threads, outcome \in ThreadedTtsOutcomes : incoming_call_respond(t, outcome)
    \/ \E t \in Threads, form \in [CallSid : CallSids] : process_speech(t, form)
    \/ \E t \in Threads : process_speech_send(t)
    \/ \E t \in Threads, outcome \in ThreadedRasaOutcomes : process_speech_reply(t, outcome)
    \/ \E t \in Threads, outcome \in ThreadedTtsOutcomes : process_speech_respond(t, outcome)
    \/ \E t \in Threads, form \in ThreadedStatusForms : call_status(t, form)
    \/ \E t \in Threads : finish(t)

SpecThreaded == Init /\ [][NextThreaded]_vars

\* The handlers with /call/initiate and the call-start webhooks of the calls it
\* creates, one request at a time
NextOutbound ==
    \/ \E t \in Serving, data \in JsonBodies : initiate_call(t, data)
    \/ \E t \in Serving, outcome \in CreateOutcomes : initiate_call_respond(t, outcome)
    \/ \E t \in Serving, sid \in CallSids : outbound_call_start(t, sid)
    \/ \E t \in Serving, outcome \in ThreadedTtsOutcomes : incoming_call_respond(t, outcome)
    \/ \E t \in Serving, form \in [CallSid : CallSids] : process_speech(t, form)
    \/ \E t \in Serving : process_speech_send(t)
    \/ \E t \in Serving, outcome \in ThreadedRasaOutcomes : process_speech_reply(t, outcome)
    \/ \E t \in Serving, outcome \in ThreadedTtsOutcomes : process_speech_respond(t, outcome)
    \/ \E t \in Serving, form \in ThreadedStatusForms : call_status(t, form)
    \/ \E t \in Serving : finish(t)

SpecOutbound == Init /\ [][NextOutbound]_vars

\* ------------------------------------------------------------------ claims

\* Thread t takes a request for `handler` in this step
Begins(t, handler) == req[t].pc = "idle" /\ req'[t].handler = handler

\* A document that says an error message and hangs up
IsErrorHangup(resp) ==
    /\ resp.status = 200
    /\ resp.mimetype = "text/xml"
    /\ Len(resp.twiml) = 2
    /\ resp.twiml[1].verb = "Say"
    /\ resp.twiml[1].text \in {error_messages[l] : l \in Supported}
    /\ resp.twiml[2].verb = "Hangup"

IsPrefix(s1, s2) == Len(s1) <= Len(s2) /\ SubSeq(s2, 1, Len(s1)) = s1

\* C1: a call-start event leaves a session for its call_id, and a call-start
\* for a call_id that already has a session leaves that session's caller
\* number, language and history as they were.
C1_CallStartKeepsExistingSession ==
    [][\A t \in Threads :
          Begins(t, "incoming_call") =>
              LET call_sid == req'[t].form["CallSid"]
              IN  /\ call_sid \in DOMAIN call_sessions'
                  /\ call_sid \in DOMAIN call_sessions =>
                         call_sessions'[call_sid] = call_sessions[call_sid]]_vars

\* C2: a terminal status event removes the session of its call_id; a call_id
\* without a session gets one only by a call-start for it, and a turn for it is
\* answered as a turn of an unknown session; a status event for a call_id
\* without a session changes nothing and is acknowledged with 200.
C2_TerminalStatusRemovesSession ==
    [][/\ \A t \in Threads :
             Begins(t, "call_status") =>
                 LET call_sid == req'[t].form["CallSid"]
                     terminal == req'[t].form["CallStatus"]
                                     \in {"completed", "failed", "busy", "no-answer"}
                 IN  /\ terminal => call_sid \notin DOMAIN call_sessions'
                     /\ call_sid \notin DOMAIN call_sessions => call_sessions' = call_sessions
                     /\ req'[t].pc = "done"
                     /\ req'[t].response = << JsonResponse([status |-> "received"], 200) >>
       /\ \A c \in CallSids :
             (c \notin DOMAIN call_sessions /\ c \in DOMAIN call_sessions') =>
                 \E t \in Threads : Begins(t, "incoming_call") /\ req'[t].form["CallSid"] = c
       /\ \A t \in Threads :
             (Begins(t, "process_speech") /\ req'[t].form["CallSid"] \notin DOMAIN call_sessions) =>
                 /\ req'[t].pc = "done"
                 /\ req'[t].session = "none"
                 /\ IsErrorHangup(req'[t].response[1])]_vars

\* C2 witness: a terminal status event has just removed the session of its call
C2_Witness ==
    \E t \in Threads :
        /\ req[t].pc = "done"
        /\ req[t].handler = "call_status"
        /\ req[t].cleaned
        /\ req[t].form["CallStatus"] = "no-answer"
        /\ req[t].form["CallSid"] \notin DOMAIN call_sessions

\* C3: a turn that got its reply appends exactly one (utterance, reply) pair at
\* the end of the history of its session, and no step removes or reorders the
\* history entries of a call_id that keeps its session.
C3_HistoryAppendOnly ==
    [][/\ \A c \in DOMAIN call_sessions \cap DOMAIN call_sessions' :
             IsPrefix(call_sessions[c].conversation_history,
                      call_sessions'[c].conversation_history)
       /\ \A t \in Threads :
             (req[t].pc = "send_message" /\ req'[t].rasa_response # None) =>
                 LET c == req[t].form["CallSid"]
                     before == call_sessions[c].conversation_history
                     after == call_sessions'[c].conversation_history
                 IN  /\ Len(after) = Len(before) + 1
                     /\ after[Len(after)] =
                            [user |-> Get(req[t].form, "SpeechResult", ""),
                             bot |-> req'[t].rasa_response[1]]]_vars

\* C4: a turn for a call_id without a session is answered at once with the
\* error-then-hangup document; the store is unchanged, and neither Rasa nor
\* Sarvam gets a request; the request then only ends.
C4_UnknownSessionTurnIsRejected ==
    [][\A t \in Threads :
          /\ (Begins(t, "process_speech")
                  /\ req'[t].form["CallSid"] \notin DOMAIN call_sessions) =>
                 /\ call_sessions' = call_sessions
                 /\ req'[t].pc = "done"
                 /\ Len(req'[t].response) = 1
                 /\ IsErrorHangup(req'[t].response[1])
                 /\ req'[t].rasa_requests = <<>>
                 /\ req'[t].tts_requests = <<>>
          /\ (req[t].pc = "done" /\ req[t].handler = "process_speech"
                  /\ req[t].session = "none" /\ req'[t] # req[t]) =>
                 /\ req'[t] = Idle
                 /\ call_sessions' = call_sessions]_vars

\* C4 witness: a turn for a call_id without a session has been answered with
\* the error document while another call has a session with history
C4_Witness ==
    \E t \in Threads :
        /\ req[t].pc = "done"
        /\ req[t].handler = "process_speech"
        /\ req[t].session = "none"
        /\ req[t].form["CallSid"] \notin DOMAIN call_sessions
        /\ IsErrorHangup(req[t].response[1])
        /\ \E c \in DOMAIN call_sessions : call_sessions[c].conversation_history # <<>>

\* C5: as long as a call_id keeps its session, the session's language stays
\* the one it had.
C5_LanguageFixed ==
    [][\A c \in DOMAIN call_sessions \cap DOMAIN call_sessions' :
          call_sessions'[c].language = call_sessions[c].language]_vars

\* C6: the language of every session is one of hi, te, en, ur.
C6_LanguageSupported ==
    \A c \in DOMAIN call_sessions : call_sessions[c].language \in {"hi", "te", "en", "ur"}

\* The outcomes of the POST to Rasa that C7 names: a timeout, any other
\* exception, a non-success status, an empty response list
C7_Failure(outcome) ==
    \/ outcome.kind \in {"timeout", "exception"}
    \/ outcome.kind = "http" /\ (outcome.status_code # 200 \/ outcome.json = <<>>)

\* A document that plays or says `text`, listens, and redirects to the
\* turn-processing target
IsListenAgain(resp, text) ==
    /\ resp.status = 200
    /\ resp.mimetype = "text/xml"
    /\ Len(resp.twiml) = 3
    /\ resp.twiml[1].verb \in {"Play", "Say"}
    /\ resp.twiml[1].verb = "Say" => resp.twiml[1].text = text
    /\ resp.twiml[2].verb = "Gather"
    /\ resp.twiml[2].action = SERVER_URL \o "/voice/process"
    /\ resp.twiml[3] = Redirect(SERVER_URL \o "/voice/process")

\* C7: when the POST to Rasa ends in a timeout, an exception, a non-success
\* status or an empty response list, send_message returns the fallback text of
\* the language it was called with, the (utterance, fallback) pair is appended
\* to the session's history, and the turn ends with a listen-again document
\* that speaks the reply.
C7_SendNeverFailsOutward ==
    [][\A t \in Threads :
          /\ (/\ req[t].pc = "send_message"
              /\ req'[t].rasa_outcome # <<>>
              /\ C7_Failure(req'[t].rasa_outcome[1])) =>
                 /\ req'[t].pc \in {"reply_tts", "done"}
                 /\ req'[t].rasa_response # None
                 /\ req'[t].rasa_response[1] # ""
                 /\ req[t].language \in Supported =>
                        req'[t].rasa_response[1] = fallback_messages[req[t].language]
                 /\ req[t].session = "stored" =>
                        LET c == req[t].form["CallSid"]
                        IN  call_sessions'[c].conversation_history =
                                Append(call_sessions[c].conversation_history,
                                       [user |-> Get(req[t].form, "SpeechResult", ""),
                                        bot |-> req'[t].rasa_response[1]])
          /\ (/\ req[t].pc \in {"send_message", "reply_tts"}
              /\ req'[t].pc # req[t].pc) =>
                 /\ req'[t].rasa_response # None
                 /\ req'[t].pc = "done" =>
                        /\ Len(req'[t].response) = 1
                        /\ IsListenAgain(req'[t].response[1], req'[t].rasa_response[1])]_vars

\* C7 witness: a turn whose POST to Rasa returned status 500 has ended
C7_Witness ==
    \E t \in Threads :
        /\ req[t].pc = "done"
        /\ req[t].rasa_outcome = << RasaHttp(500, <<>>) >>
        /\ req[t].language = "te"
        /\ req[t].rasa_response = Some(fallback_messages["te"])
        /\ req[t].response # <<>>

\* C8: the reply send_message returns is never the empty string.
C8_ReplyNeverEmpty ==
    \A t \in Threads : req[t].rasa_response # None => req[t].rasa_response[1] # ""

\* Indices of the fragments that have a text field
C9_TextIndices(json) == {i \in 1..Len(json) : "text" \in DOMAIN json[i]}

RECURSIVE C9_Width(_, _)
\* Length of the texts at indices S, each followed by one space
C9_Width(json, S) ==
    IF S = {} THEN 0
    ELSE LET j == CHOOSE x \in S : TRUE
         IN  Len(json[j].text) + 1 + C9_Width(json, S \ {j})

\* C9: on a success response with fragments, the reply consists of the text
\* fields in response order, each but the first preceded by exactly one
\* space, and of nothing else.
C9_TextsJoinedBySingleSpace ==
    \A t \in Threads :
        (/\ req[t].rasa_outcome # <<>>
         /\ req[t].rasa_outcome[1].kind = "http"
         /\ req[t].rasa_outcome[1].status_code = 200
         /\ Len(req[t].rasa_outcome[1].json) > 0) =>
            LET json == req[t].rasa_outcome[1].json
                reply == req[t].rasa_response[1]
                idx == C9_TextIndices(json)
            IN  /\ Len(reply) = C9_Width(json, idx) - (IF idx = {} THEN 0 ELSE 1)
                /\ \A i \in idx :
                       LET off == C9_Width(json, {j \in idx : j < i})
                       IN  /\ SubSeq(reply, off + 1, off + Len(json[i].text)) = json[i].text
                           /\ off > 0 => SubSeq(reply, off, off) = " "

\* C9 witness: a three-fragment response whose middle fragment has no text
C9_Witness ==
    \E t \in Threads :
        /\ req[t].rasa_outcome # <<>>
        /\ req[t].rasa_outcome[1].kind = "http"
        /\ req[t].rasa_outcome[1].status_code = 200
        /\ Len(req[t].rasa_outcome[1].json) = 3
        /\ "text" \notin DOMAIN req[t].rasa_outcome[1].json[2]
        /\ req[t].rasa_response = Some("Hi there")

\* The outcomes of generate_speech's POST that C10 names: a timeout, an
\* exception, a non-success status, a response without audio payload, a
\* payload that cannot be written
C10_NoAudio(outcome) ==
    \/ outcome.kind \in {"timeout", "exception"}
    \/ /\ outcome.kind = "http"
       /\ \/ outcome.status_code # 200
          \/ {"audio", "audio_url"} \cap DOMAIN outcome.result = {}
          \/ "audio" \in DOMAIN outcome.result /\ ~outcome.disk_ok

C10_Locale == [hi |-> "hi-IN", te |-> "te-IN", en |-> "en-IN", ur |-> "ur-PK"]

\* C10: generate_speech returns None without an API key and after every
\* failed POST; a greeting or reply document plays the audio and has no Say
\* when generate_speech returned a (non-empty) audio URL, and otherwise says
\* the text in the language's locale and has no Play.
C10_SynthesisFallback ==
    \A t \in Threads :
        LET r == req[t]
        IN  /\ (r.tts_outcome # <<>> /\ C10_NoAudio(r.tts_outcome[1])) => r.audio_url = None
            /\ api_key = None => (r.tts_requests = <<>> /\ r.audio_url = None)
            /\ (/\ r.pc = "done"
                /\ \/ r.handler = "incoming_call"
                   \/ r.handler = "process_speech" /\ r.rasa_response # None) =>
                   LET doc == r.response[1].twiml
                       text == IF r.handler = "incoming_call"
                               THEN get_initial_greeting(r.form["CallSid"], r.language)
                               ELSE r.rasa_response[1]
                       verbs == {doc[i].verb : i \in 1..Len(doc)}
                   IN  IF r.audio_url # None /\ r.audio_url[1] # ""
                       THEN /\ doc[1] = Play(r.audio_url[1])
                            /\ "Say" \notin verbs
                       ELSE /\ doc[1].verb = "Say"
                            /\ doc[1].text = text
                            /\ r.language \in Supported =>
                                   doc[1].language = C10_Locale[r.language]
                            /\ "Play" \notin verbs

\* C10 witness: the POST to Sarvam timed out and the reply is said, not played
C10_Witness ==
    \E t \in Threads :
        /\ req[t].pc = "done"
        /\ req[t].handler = "process_speech"
        /\ req[t].tts_outcome = << TtsTimeout >>
        /\ req[t].audio_url = None
        /\ req[t].response[1].twiml[1] = Say("Hi there", "en-IN")

\* The artifacts the handlers look up by language tag: the greeting, the
\* fallback and error texts, the recognition hints, the synthesis voice, and
\* the recognition and synthesis locales
C11_Profile(language) ==
    [greeting |-> get_initial_greeting("CA1", language),
     fallback |-> _get_fallback_response(language),
     error |-> generate_error_response(language)[1].text,
     hints |-> _get_speech_hints(language),
     voice |-> _get_voice_for_language(language),
     recognition |-> _get_twilio_language(language),
     synthesis |-> _get_sarvam_language_code(language)]

\* C11: for the language tag of every session, each artifact looked up by it
\* is non-empty, and when the tag is not one of hi, te, en, ur the artifacts
\* are all those of one and the same supported language.
C11_LanguageResolution ==
    \A c \in DOMAIN call_sessions :
        LET language == call_sessions[c].language
            p == C11_Profile(language)
        IN  /\ \A f \in DOMAIN p : p[f] # ""
            /\ language \notin Supported => \E d \in Supported : p = C11_Profile(d)

\* The text a finished call-start or turn had to speak: the greeting of the
\* request's language, or the reply send_message returned
C12_Text(r) ==
    IF r.handler = "incoming_call"
    THEN Get(greetings, r.language, greetings["en"])
    ELSE r.rasa_response[1]

\* C12: the response to a call-start, and to a turn that found its session,
\* is a document of three verbs: a Play of the audio synthesized from the
\* greeting (or the reply) or a Say of that text, a Gather of speech whose
\* action is /voice/process, and a Redirect to /voice/process; it has no
\* Hangup.
C12_ListenAgainShape ==
    \A t \in Threads :
        LET r == req[t]
        IN  (/\ r.pc = "done"
             /\ \/ r.handler = "incoming_call"
                \/ r.handler = "process_speech" /\ r.session # "none") =>
                /\ Len(r.response) = 1
                /\ r.response[1].status = 200
                /\ r.response[1].mimetype = "text/xml"
                /\ LET doc == r.response[1].twiml
                       target == "https://bot.example/voice/process"
                   IN  /\ Len(doc) = 3
                       /\ \/ /\ doc[1].verb = "Say"
                             /\ doc[1].text = C12_Text(r)
                          \/ /\ doc[1].verb = "Play"
                             /\ r.tts_requests # <<>>
                             /\ r.tts_requests[1].text = C12_Text(r)
                             /\ r.audio_url = Some(doc[1].url)
                       /\ doc[2].verb = "Gather"
                       /\ doc[2].input = "speech"
                       /\ doc[2].action = target
                       /\ doc[3].verb = "Redirect"
                       /\ doc[3].url = target
                       /\ \A i \in 1..Len(doc) : doc[i].verb # "Hangup"

\* C12 witness: a turn has been answered with the synthesized reply, a Gather
\* and a Redirect, and a call-start before it left its session
C12_Witness ==
    \E t \in Threads :
        /\ req[t].pc = "done"
        /\ req[t].handler = "process_speech"
        /\ req[t].session = "stored"
        /\ req[t].response[1].twiml[1] = Play("https://cdn.example/a.wav")
        /\ req[t].response[1].twiml[2].verb = "Gather"
        /\ req[t].response[1].twiml[3] = Redirect("https://bot.example/voice/process")

\* A complete call-control document: the error message and a Hangup, or a
\* speech verb, a Gather and a Redirect
C13_WellFormed(resp) ==
    /\ resp.status = 200
    /\ resp.mimetype = "text/xml"
    /\ \/ /\ Len(resp.twiml) = 2
          /\ resp.twiml[1].verb = "Say"
          /\ resp.twiml[1].text # ""
          /\ resp.twiml[2] = Hangup
       \/ /\ Len(resp.twiml) = 3
          /\ resp.twiml[1].verb \in {"Play", "Say"}
          /\ resp.twiml[2].verb = "Gather"
          /\ resp.twiml[3].verb = "Redirect"

\* C13: a call-start or turn request has no response while it is handled and
\* exactly one, a complete call-control document, when it is done; a turn
\* whose session lookup raises (the session went away after the membership
\* test) is answered with the error-then-hangup document; a done request only
\* ends.
C13_AlwaysOneDocument ==
    [][\A t \in Threads :
          /\ req'[t].handler \in {"incoming_call", "process_speech"} =>
                 IF req'[t].pc = "done"
                 THEN /\ Len(req'[t].response) = 1
                      /\ C13_WellFormed(req'[t].response[1])
                 ELSE req'[t].response = <<>>
          /\ (/\ req[t].pc = "checked"
              /\ req[t].form["CallSid"] \notin DOMAIN call_sessions
              /\ req'[t].pc # "checked") =>
                 /\ req'[t].pc = "done"
                 /\ IsErrorHangup(req'[t].response[1])
                 /\ call_sessions' = call_sessions
          /\ (/\ req[t].pc = "done"
              /\ req[t].handler \in {"incoming_call", "process_speech"}
              /\ req'[t].pc # "done") => req'[t] = Idle]_vars

\* C13 witness: a turn passed the membership test, its session was removed
\* before the lookup, and the turn was answered with the error document
C13_Witness ==
    \E t \in Threads :
        /\ req[t].pc = "done"
        /\ req[t].handler = "process_speech"
        /\ req[t].at_check # None
        /\ req[t].session = "none"
        /\ IsErrorHangup(req[t].response[1])

\* The error-then-hangup document in language l
C14_ErrorDocument(l) == << Say(error_messages[l], C10_Locale[l]), Hangup >>

\* C14: when a call-start that asked for a supported language l is answered
\* with the error document, or a turn that found a session of language l and
\* then failed is, the document says the error text of l in the locale of l.
C14_ErrorDocumentLocalized ==
    \A t \in Threads :
        LET r == req[t]
        IN  /\ (/\ r.pc = "done"
                /\ r.handler = "incoming_call"
                /\ r.language \in Supported
                /\ Len(r.response[1].twiml) = 2) =>
                   r.response[1].twiml = C14_ErrorDocument(r.language)
            /\ (/\ r.pc = "done"
                /\ r.handler = "process_speech"
                /\ r.at_check # None
                /\ r.at_check[1] \in Supported
                /\ Len(r.response[1].twiml) = 2) =>
                   r.response[1].twiml = C14_ErrorDocument(r.at_check[1])

\* C15: a status event with a status other than completed, failed, busy and
\* no-answer leaves the store as it was; a status event leaves the entry of
\* every other call_id as it was; every status event is answered at once with
\* the JSON acknowledgment and status 200, not with a call-control document,
\* and posts nothing to Rasa or Sarvam.
C15_StatusFrame ==
    [][\A t \in Threads :
          Begins(t, "call_status") =>
              LET c == req'[t].form["CallSid"]
                  terminal == req'[t].form["CallStatus"]
                                  \in {"completed", "failed", "busy", "no-answer"}
                  resp == req'[t].response[1]
              IN  /\ ~terminal => call_sessions' = call_sessions
                  /\ \A d \in CallSids \ {c} :
                         /\ d \in DOMAIN call_sessions' <=> d \in DOMAIN call_sessions
                         /\ d \in DOMAIN call_sessions => call_sessions'[d] = call_sessions[d]
                  /\ c \in DOMAIN call_sessions' => call_sessions'[c] = call_sessions[c]
                  /\ req'[t].pc = "done"
                  /\ Len(req'[t].response) = 1
                  /\ resp.status = 200
                  /\ resp.mimetype = "application/json"
                  /\ resp.json = [status |-> "received"]
                  /\ "twiml" \notin DOMAIN resp
                  /\ req'[t].rasa_requests = <<>>
                  /\ req'[t].tts_requests = <<>>]_vars

\* C15 witness: a terminal status has removed the session of its own call
\* while the other call keeps its session and history
C15_Witness ==
    \E t \in Threads :
        /\ req[t].pc = "done"
        /\ req[t].handler = "call_status"
        /\ req[t].cleaned
        /\ req[t].form["CallSid"] \notin DOMAIN call_sessions
        /\ \E d \in DOMAIN call_sessions : call_sessions[d].conversation_history # <<>>

C18_Entry(sessions, c) == IF c \in DOMAIN sessions THEN Some(sessions[c]) ELSE None

\* C18: with two requests in flight, a step of a request of call_id c leaves
\* the session of every other call_id as it is (present or absent), and what
\* it does to the session of c depends on that session and on the request
\* alone: a call-start sets it to a new session with the form's number and
\* language, a terminal status removes it, a turn's reply appends one pair to
\* the history of the session it looked up, and every other step leaves it.
C18_SessionsIsolated ==
    [][\A t \in Threads :
          req'[t].pc # req[t].pc =>
              LET r == IF req[t].pc = "idle" THEN req'[t] ELSE req[t]
                  c == r.form["CallSid"]
                  own == IF r.handler = "incoming_call" /\ req[t].pc = "idle"
                         THEN Some([from_number |-> r.form["From"],
                                    language |-> Get(r.form, "language", "hi"),
                                    conversation_history |-> <<>>])
                         ELSE IF /\ r.handler = "call_status"
                                 /\ req[t].pc = "idle"
                                 /\ r.form["CallStatus"] = "completed"
                         THEN None
                         ELSE IF req[t].pc = "send_message" /\ req[t].session = "stored"
                         THEN Some([call_sessions[c] EXCEPT !.conversation_history =
                                       Append(@, [user |-> Get(r.form, "SpeechResult", ""),
                                                  bot |-> req'[t].rasa_response[1]])])
                         ELSE C18_Entry(call_sessions, c)
              IN  /\ \A d \in CallSids \ {c} :
                         C18_Entry(call_sessions', d) = C18_Entry(call_sessions, d)
                  /\ C18_Entry(call_sessions', c) = own]_vars

\* C18 witness: a turn of one call is waiting for Rasa while a turn of the
\* other call has appended to its own session
C18_Witness ==
    \E t, u \in Threads :
        /\ req[t].pc = "send_message"
        /\ req[u].pc \in {"reply_tts", "done"}
        /\ req[u].handler = "process_speech"
        /\ req[u].session = "stored"
        /\ req[t].form["CallSid"] # req[u].form["CallSid"]
        /\ req[t].form["CallSid"] \in DOMAIN call_sessions
        /\ call_sessions[req[u].form["CallSid"]].conversation_history # <<>>

\* Thread t serves a turn whose form has no SpeechResult field
C19_NoInput(r) == r.handler = "process_speech" /\ "SpeechResult" \notin DOMAIN r.form

\* C19: a turn without recognized speech for a call_id that has a session is
\* not answered at the membership test; it posts the empty string as message
\* to Rasa, appends the pair of the empty string and the reply to the
\* session's history, and ends with a speech verb, a Gather and a Redirect to
\* /voice/process, not with the error-then-hangup document.
C19_NoInputTurnIsATurn ==
    [][\A t \in Threads :
          /\ (/\ Begins(t, "process_speech")
              /\ C19_NoInput(req'[t])
              /\ req'[t].form["CallSid"] \in DOMAIN call_sessions) =>
                 /\ req'[t].pc = "checked"
                 /\ req'[t].response = <<>>
          /\ (C19_NoInput(req[t]) /\ req[t].pc = "checked" /\ req'[t].pc # "checked") =>
                 /\ req'[t].pc = "send_message"
                 /\ Len(req'[t].rasa_requests) = 1
                 /\ req'[t].rasa_requests[1].message = ""
                 /\ req'[t].rasa_requests[1].sender = req[t].form["CallSid"]
          /\ (C19_NoInput(req[t]) /\ req[t].pc = "send_message"
                  /\ req'[t].pc # "send_message") =>
                 LET c == req[t].form["CallSid"]
                 IN  call_sessions'[c].conversation_history =
                         Append(call_sessions[c].conversation_history,
                                [user |-> "", bot |-> req'[t].rasa_response[1]])
          /\ (C19_NoInput(req[t]) /\ req[t].pc \in {"send_message", "reply_tts"}
                  /\ req'[t].pc = "done") =>
                 LET doc == req'[t].response[1].twiml
                 IN  /\ Len(doc) = 3
                     /\ doc[1].verb \in {"Play", "Say"}
                     /\ doc[2].verb = "Gather"
                     /\ doc[2].action = "https://bot.example/voice/process"
                     /\ doc[3] = [verb |-> "Redirect", url |-> "https://bot.example/voice/process"]
                     /\ ~IsErrorHangup(req'[t].response[1])]_vars

\* C19 witness: a turn without SpeechResult has ended with a listen-again
\* document and left the pair of the empty utterance and the reply in the
\* history
C19_Witness ==
    \E t \in Threads :
        /\ req[t].pc = "done"
        /\ C19_NoInput(req[t])
        /\ req[t].session = "stored"
        /\ Len(req[t].response[1].twiml) = 3
        /\ LET h == call_sessions[req[t].form["CallSid"]].conversation_history
           IN  /\ h # <<>>
               /\ h[Len(h)] = [user |-> "", bot |-> "Hi there"]

\* The body of a /call/initiate request names no number to call: there is no
\* JSON body, or it has no to_number field, or an empty one
C16_NoNumber(data) == data = None \/ Get(data[1], "to_number", "") = ""

\* C16: a /call/initiate request without a number is answered at once with a
\* status from 400 to 499 and calls.create is not called for it; when
\* calls.create made a call, the response has status 200 and reports the
\* call's sid, the number and the language of the request.
C16_ToNumberRequired ==
    [][\A t \in Threads :
          /\ (Begins(t, "initiate_call") /\ C16_NoNumber(req'[t].data)) =>
                 /\ req'[t].pc = "done"
                 /\ req'[t].response[1].status \in 400..499
                 /\ req'[t].create_request = <<>>
                 /\ twilio_calls' = twilio_calls
          /\ (req[t].pc = "calls_create" /\ twilio_calls' # twilio_calls) =>
                 \E sid \in DOMAIN twilio_calls' \ DOMAIN twilio_calls :
                     /\ twilio_calls'[sid].to = req[t].data[1]["to_number"]
                     /\ req'[t].response =
                            << [status |-> 200,
                                mimetype |-> "application/json",
                                json |-> [status |-> "success",
                                          call_sid |-> sid,
                                          to |-> req[t].data[1]["to_number"],
                                          language |->
                                              Get(req[t].data[1], "language", "hi")]] >>]_vars

\* C20: the call-start webhook of a call that initiate_outbound_call made
\* with a supported language l leaves a session of language l for the call
\* and greets in l.
C20_OutboundLanguageKept ==
    \A t \in Threads, l \in {"hi", "te", "en", "ur"} :
        LET r == req[t]
        IN  (/\ r.pc = "done"
             /\ r.handler = "incoming_call"
             /\ r.form["CallSid"] \in DOMAIN twilio_calls
             /\ twilio_calls[r.form["CallSid"]].url =
                    "https://bot.example/voice/incoming?language=" \o l) =>
                /\ call_sessions[r.form["CallSid"]].language = l
                /\ \/ r.response[1].twiml[1] = Say(greetings[l], C10_Locale[l])
                   \/ /\ r.response[1].twiml[1].verb = "Play"
                      /\ r.tts_requests[1].text = greetings[l]

\* Thread t serves a turn that has passed its membership test and has not
\* appended to the history yet
C21_BeforeAppend(r) == r.handler = "process_speech" /\ r.pc \in {"checked", "send_message"}

\* The turn that thread t serves has a next step, whatever the network does
C21_CanStep(t) ==
    ENABLED (\/ process_speech_send(t)
             \/ process_speech_reply(t, RasaTimeout)
             \/ process_speech_respond(t, TtsTimeout))

\* C21: a terminal status event taken while a turn of the same call_id is
\* between its membership test and its append removes the session and leaves
\* the turn where it is; no step of a turn adds a call_id to the store; a
\* turn whose session is gone at the lookup ends with the error-then-hangup
\* document, and a turn whose session went after the lookup ends with the
\* listen-again document that speaks its reply; a turn in progress can always
\* take its next step.
C21_TerminalStatusDuringTurn ==
    [][\A t \in Threads :
          LET c == req[t].form["CallSid"]
          IN  /\ C21_BeforeAppend(req[t]) =>
                     \A u \in Threads \ {t} :
                         (/\ Begins(u, "call_status")
                          /\ req'[u].form["CallSid"] = c
                          /\ req'[u].form["CallStatus"]
                                 \in {"completed", "failed", "busy", "no-answer"}) =>
                             /\ c \notin DOMAIN call_sessions'
                             /\ req'[t].pc = req[t].pc
                             /\ req'[t].response = <<>>
              /\ (/\ req[t].handler = "process_speech"
                  /\ req[t].pc \in {"checked", "send_message", "reply_tts"}
                  /\ req'[t].pc # req[t].pc) =>
                     /\ DOMAIN call_sessions' = DOMAIN call_sessions
                     /\ req'[t].pc \in {"send_message", "reply_tts", "done"}
                     /\ (req[t].pc = "checked" /\ c \notin DOMAIN call_sessions) =>
                            /\ req'[t].pc = "done"
                            /\ Len(req'[t].response) = 1
                            /\ IsErrorHangup(req'[t].response[1])
                     /\ (req[t].session = "detached" /\ req'[t].pc = "done") =>
                            /\ Len(req'[t].response) = 1
                            /\ IsListenAgain(req'[t].response[1], req'[t].rasa_response[1])
                            /\ call_sessions' = call_sessions
              /\ (/\ req'[t].handler = "process_speech"
                  /\ req'[t].pc \in {"checked", "send_message", "reply_tts"}) =>
                     C21_CanStep(t)']_vars

\* C21 witness: a call was completed while its turn waited for Rasa; both
\* requests are done, the call has no session, and the turn was answered with
\* the listen-again document
C21_Witness ==
    \E t, u \in Threads :
        /\ req[t].pc = "done"
        /\ req[t].handler = "process_speech"
        /\ req[t].session = "detached"
        /\ Len(req[t].response[1].twiml) = 3
        /\ req[u].pc = "done"
        /\ req[u].handler = "call_status"
        /\ req[u].cleaned
        /\ req[u].form["CallSid"] = req[t].form["CallSid"]
        /\ req[t].form["CallSid"] \notin DOMAIN call_sessions

====
